---- MODULE Spec2Model ----
(***************************************************************************)
(* Reply normalisation (sanitizeReply, utils/chatHelpers) and structural   *)
(* rendering (renderMessageText, components/chat/ChatMessage) of the       *)
(* RemoteLock assistant frontend.                                          *)
(*                                                                         *)
(* A JavaScript string is a sequence of characters; a character is a       *)
(* one-element name ("a", "*", NL, ...).  Every regular expression of the  *)
(* source is translated into an operator that scans the sequence the way   *)
(* the regular expression engine does (leftmost, greedy).                  *)
(***************************************************************************)
EXTENDS Integers, Sequences, FiniteSets, TLC

\* ------------------------------------------------------------------------
\* Characters
\* ------------------------------------------------------------------------
NL == "\n"
TAB == "\t"
CR == "\r"
SP == " "
ZWSP == "u200B"
ZWNJ == "u200C"
ZWJ == "u200D"
BOM == "uFEFF"
BULLET == "u2022"
BACKTICK == "u0060"

Letters == {"a", "b", "c", "d", "e", "f", "x", "I", "R", "m", "o", "r", "z",
            "h", "t", "p", "s", "S", "y", "n", "l"}
Digits == {"0", "1", "2"}

\* Unicode code point of the characters that are neither letters nor digits
OtherCodePoint ==
  [c \in {TAB, NL, CR, SP, "!", "(", ")", "*", "+", ",", "-", ".", "/", ":",
          ";", "<", ">", "[", "]", "_", BACKTICK, "~", ZWSP, ZWNJ, ZWJ, BULLET, BOM}
     |-> CASE c = TAB -> 9 [] c = NL -> 10 [] c = CR -> 13 [] c = SP -> 32
           [] c = "!" -> 33 [] c = "(" -> 40 [] c = ")" -> 41 [] c = "*" -> 42
           [] c = "+" -> 43 [] c = "," -> 44 [] c = "-" -> 45 [] c = "." -> 46
           [] c = "/" -> 47 [] c = ":" -> 58 [] c = ";" -> 59 [] c = "<" -> 60
           [] c = ">" -> 62 [] c = "[" -> 91 [] c = "]" -> 93 [] c = "_" -> 95
           [] c = BACKTICK -> 96 [] c = "~" -> 126 [] c = ZWSP -> 8203
           [] c = ZWNJ -> 8204 [] c = ZWJ -> 8205 [] c = BULLET -> 8226
           [] c = BOM -> 65279]

\* [A-Za-z]
IsLetter(c) == c \in Letters

\* \d
IsDigit(c) == c \in Digits

\* \w, the class that decides \b
IsWordChar(c) == IsLetter(c) \/ IsDigit(c) \/ c = "_"

\* \s (and the characters String.prototype.trim strips)
IsSpace(c) == c \in {SP, TAB, NL, CR, BOM}

\* [\u200B\u200C\u200D\uFEFF]
IsZeroWidth(c) == c \in {ZWSP, ZWNJ, ZWJ, BOM}

\* [ \t\n\r]
IsBlank(c) == c \in {SP, TAB, NL, CR}

\* ------------------------------------------------------------------------
\* String helpers
\* ------------------------------------------------------------------------
Substr(s, i, j) == IF j < i THEN <<>> ELSE SubSeq(s, i, j)

\* index of the last character of the run of whitespace that starts at i
RECURSIVE SpaceRunEnd(_, _)
SpaceRunEnd(s, i) ==
  IF i < Len(s) /\ IsSpace(s[i + 1]) THEN SpaceRunEnd(s, i + 1) ELSE i

RECURSIVE BlankRunEnd(_, _)
BlankRunEnd(s, i) ==
  IF i < Len(s) /\ IsBlank(s[i + 1]) THEN BlankRunEnd(s, i + 1) ELSE i

RECURSIVE DigitRunEnd(_, _)
DigitRunEnd(s, i) ==
  IF i < Len(s) /\ IsDigit(s[i + 1]) THEN DigitRunEnd(s, i + 1) ELSE i

\* String.prototype.trim
RECURSIVE TrimStart(_)
TrimStart(s) ==
  IF s # <<>> /\ IsSpace(Head(s)) THEN TrimStart(Tail(s)) ELSE s

RECURSIVE TrimEnd(_)
TrimEnd(s) ==
  IF s # <<>> /\ IsSpace(s[Len(s)]) THEN TrimEnd(Substr(s, 1, Len(s) - 1))
  ELSE s

Trim(s) == TrimEnd(TrimStart(s))

\* String.prototype.split('\n')
RECURSIVE SplitFrom(_, _, _)
SplitFrom(s, start, i) ==
  IF i > Len(s) THEN << Substr(s, start, Len(s)) >>
  ELSE IF s[i] = NL THEN << Substr(s, start, i - 1) >> \o SplitFrom(s, i + 1, i + 1)
  ELSE SplitFrom(s, start, i + 1)

SplitLines(s) == SplitFrom(s, 1, 1)

\* Array.prototype.join('\n')
RECURSIVE JoinLines(_)
JoinLines(ls) ==
  IF ls = <<>> THEN <<>>
  ELSE IF Len(ls) = 1 THEN ls[1]
  ELSE ls[1] \o <<NL>> \o JoinLines(Tail(ls))

\* .map((l) => l.trim())
TrimEach(ls) == [k \in 1..Len(ls) |-> Trim(ls[k])]

NonEmpty(l) == l # <<>>

\* ------------------------------------------------------------------------
\* JavaScript values handed to the transforms, and their results
\* ------------------------------------------------------------------------
Str(s) == [type |-> "string", chars |-> s, num |-> 0]
JsNull == [type |-> "null", chars |-> <<>>, num |-> 0]
JsUndefined == [type |-> "undefined", chars |-> <<>>, num |-> 0]
JsNumber(n) == [type |-> "number", chars |-> <<>>, num |-> n]
JsObject == [type |-> "object", chars |-> <<>>, num |-> 0]
JsArray == [type |-> "array", chars |-> <<>>, num |-> 0]

\* ToBoolean: what `!text` tests
Truthy(v) ==
  CASE v.type = "string" -> v.chars # <<>>
    [] v.type = "number" -> v.num # 0
    [] v.type \in {"null", "undefined"} -> FALSE
    [] OTHER -> TRUE

\* only strings have a replace method: text.replace(...) on any other
\* truthy value is a TypeError
HasReplace(v) == v.type = "string"

Returned(s) == [status |-> "returned", value |-> s]
Raised == [status |-> "raised", value |-> <<>>]

\* ------------------------------------------------------------------------
\* sanitizeReply, step by step
\* ------------------------------------------------------------------------
\* .replace(/\r/g, '')
StripCR(s) == SelectSeq(s, LAMBDA c : c # CR)

\* .replace(/\*{2,}/g, ''): every asterisk with an asterisk next to it
\* belongs to a run of two or more
InStarRun(s, i) ==
  /\ s[i] = "*"
  /\ \/ (i > 1 /\ s[i - 1] = "*")
     \/ (i < Len(s) /\ s[i + 1] = "*")

RECURSIVE StripStarRunsFrom(_, _)
StripStarRunsFrom(s, i) ==
  IF i > Len(s) THEN <<>>
  ELSE (IF InStarRun(s, i) THEN <<>> ELSE << s[i] >>) \o StripStarRunsFrom(s, i + 1)

StripStarRuns(s) == StripStarRunsFrom(s, 1)

\* .replace(/[_~`]{1,}/g, '')
StripMarkers(s) == SelectSeq(s, LAMBDA c : c \notin {"_", "~", BACKTICK})

\* s.replace(/[\u200B\u200C\u200D\uFEFF]/g, '')
StripZeroWidth(s) == SelectSeq(s, LAMBDA c : ~IsZeroWidth(c))

\* s.replace(/\s{2,}/g, ' ')
RECURSIVE CollapseFrom(_, _)
CollapseFrom(s, i) ==
  IF i > Len(s) THEN <<>>
  ELSE IF IsSpace(s[i]) /\ SpaceRunEnd(s, i) > i
       THEN << SP >> \o CollapseFrom(s, SpaceRunEnd(s, i) + 1)
       ELSE << s[i] >> \o CollapseFrom(s, i + 1)

CollapseSpaces(s) == CollapseFrom(s, 1)

\* one iteration of [A-Za-z](?:[ \t\n\r]+|$) at p: the index of its last
\* character, 0 when it does not match
TokenEnd(s, p) ==
  IF p > Len(s) \/ ~IsLetter(s[p]) THEN 0
  ELSE IF p < Len(s) /\ IsBlank(s[p + 1]) THEN BlankRunEnd(s, p + 1)
  ELSE IF p = Len(s) THEN p
  ELSE 0

\* greedy repetition of the token at p: <<number of tokens, index of the
\* last character matched>>
RECURSIVE TokenRun(_, _, _)
TokenRun(s, p, n) ==
  IF TokenEnd(s, p) = 0 THEN << n, p - 1 >>
  ELSE TokenRun(s, TokenEnd(s, p) + 1, n + 1)

\* \b in front of a letter at i
WordBoundaryBefore(s, i) == i = 1 \/ ~IsWordChar(s[i - 1])

\* the replacement callback: letters of the match
LettersOnly(match) ==
  SelectSeq(SelectSeq(match, LAMBDA c : IsLetter(c) \/ c \in {NL, CR, SP}),
            LAMBDA c : ~IsSpace(c))

MinRunTokens == 3

\* s.replace(/(?:\b(?:[A-Za-z](?:[ \t\n\r]+|$)){3,})/g, callback)
RECURSIVE JoinSpacedFrom(_, _)
JoinSpacedFrom(s, i) ==
  IF i > Len(s) THEN <<>>
  ELSE IF /\ WordBoundaryBefore(s, i)
          /\ TokenRun(s, i, 0)[1] >= MinRunTokens
       THEN LettersOnly(Substr(s, i, TokenRun(s, i, 0)[2]))
              \o JoinSpacedFrom(s, TokenRun(s, i, 0)[2] + 1)
       ELSE << s[i] >> \o JoinSpacedFrom(s, i + 1)

JoinSpacedLetters(s) == JoinSpacedFrom(s, 1)

\* index of the last character of ([*+\-BULLET]|\d+\.) matched at p, 0 when
\* there is none
MarkerEnd(l, p) ==
  IF p > Len(l) THEN 0
  ELSE IF l[p] \in {"*", "+", "-", BULLET} THEN p
  ELSE IF /\ IsDigit(l[p])
          /\ DigitRunEnd(l, p) < Len(l)
          /\ l[DigitRunEnd(l, p) + 1] = "."
       THEN DigitRunEnd(l, p) + 1
  ELSE 0

\* first index of l that is not whitespace (Len(l) + 1 when there is none)
SkipSpaces(l) == Len(l) - Len(TrimStart(l)) + 1

\* line.match(/^\s*([*+\-BULLET]|\d+\.)\s+(.*)$/): <<matched, m[2]>>
ListMarkerMatch(l) ==
  LET e == MarkerEnd(l, SkipSpaces(l)) IN
  IF e # 0 /\ e < Len(l) /\ IsSpace(l[e + 1])
  THEN << TRUE, Substr(l, SpaceRunEnd(l, e + 1) + 1, Len(l)) >>
  ELSE << FALSE, <<>> >>

MinLineTokens == 2

\* /^(?:[A-Za-z](?:[ \t\n\r]+|$)){2,}$/.test(line)
IsSpacedLetterLine(l) ==
  /\ TokenRun(l, 1, 0)[1] >= MinLineTokens
  /\ TokenRun(l, 1, 0)[2] = Len(l)

\* line.replace(/[\s\n\r]+/g, '')
StripSpaces(l) == SelectSeq(l, LAMBDA c : ~IsSpace(c))

\* line.replace(/^\s*[\*BULLET]\s?/, '')
StripStrayBullet(l) ==
  LET p == SkipSpaces(l) IN
  IF p <= Len(l) /\ l[p] \in {"*", BULLET}
  THEN IF p < Len(l) /\ IsSpace(l[p + 1]) THEN Substr(l, p + 2, Len(l))
       ELSE Substr(l, p + 1, Len(l))
  ELSE l

\* the callback of lines.map(...)
NormalizeLine(l) ==
  IF ListMarkerMatch(l)[1] THEN << BULLET, SP >> \o Trim(ListMarkerMatch(l)[2])
  ELSE IF IsSpacedLetterLine(l) THEN StripSpaces(l)
  ELSE Trim(StripStrayBullet(l))

\* /^\s*[-*]{2,}$/.test(l)
IsSeparatorLine(l) ==
  LET r == TrimStart(l) IN
  /\ Len(r) >= 2
  /\ \A k \in 1..Len(r) : r[k] \in {"-", "*"}

KeepLine_all(l) == TRUE

KeepLine(l) == l # <<>> /\ ~IsSeparatorLine(l)

\* the body of sanitizeReply for a non-empty string
SanitizeString(s) ==
  LET s1 == Trim(StripMarkers(StripStarRuns(StripCR(s))))
      s2 == CollapseSpaces(StripZeroWidth(s1))
      s3 == JoinSpacedLetters(s2)
      lines == SelectSeq(TrimEach(SplitLines(s3)), NonEmpty)
      normalized == SelectSeq([k \in 1..Len(lines) |-> NormalizeLine(lines[k])], KeepLine)
  IN JoinLines(normalized)

sanitizeReply(text) ==
  IF ~Truthy(text) THEN Returned(<<>>)
  ELSE IF ~HasReplace(text) THEN Raised
  ELSE Returned(SanitizeString(text.chars))

\* ------------------------------------------------------------------------
\* renderMessageText: link extraction (formatTextWithLinks)
\* ------------------------------------------------------------------------
\* the literal lit stands in s at i
LiteralAt(s, i, lit) ==
  /\ i >= 1
  /\ i + Len(lit) - 1 <= Len(s)
  /\ SubSeq(s, i, i + Len(lit) - 1) = lit

\* https?:\/\/ at i: index of its last character, 0 when it does not match
SchemeEnd(s, i) ==
  IF LiteralAt(s, i, << "h", "t", "t", "p", "s", ":", "/", "/" >>) THEN i + 7
  ELSE IF LiteralAt(s, i, << "h", "t", "t", "p", ":", "/", "/" >>) THEN i + 6
  ELSE 0

\* [^\s<stop>]+ from i: index of the last character of the greedy run
\* (i - 1 when the run is empty)
RECURSIVE UrlRunEnd(_, _, _)
UrlRunEnd(s, i, stop) ==
  IF i <= Len(s) /\ ~IsSpace(s[i]) /\ s[i] # stop THEN UrlRunEnd(s, i + 1, stop)
  ELSE i - 1

\* [^\]]+ from i
RECURSIVE LabelRunEnd(_, _)
LabelRunEnd(s, i) ==
  IF i <= Len(s) /\ s[i] # "]" THEN LabelRunEnd(s, i + 1) ELSE i - 1

NoMatch == [found |-> FALSE, type |-> "none", index |-> 0, last |-> 0,
            g1 |-> <<>>, g2 |-> <<>>]

\* markdownLinkRegex = /\[([^\]]+)\]\((https?:\/\/[^\s)]+)\)/ tried at i
MarkdownAt(s, i) ==
  IF i > Len(s) \/ s[i] # "[" THEN NoMatch
  ELSE
    LET le == LabelRunEnd(s, i + 1)
        se == IF le >= i + 1 /\ LiteralAt(s, le + 1, << "]", "(" >>)
              THEN SchemeEnd(s, le + 3) ELSE 0
        ue == IF se = 0 THEN 0 ELSE UrlRunEnd(s, se + 1, ")")
    IN IF se # 0 /\ ue > se /\ ue < Len(s) /\ s[ue + 1] = ")"
       THEN [found |-> TRUE, type |-> "markdown", index |-> i, last |-> ue + 1,
             g1 |-> Substr(s, i + 1, le), g2 |-> Substr(s, le + 3, ue)]
       ELSE NoMatch

\* rawUrlRegex = /<(https?:\/\/[^\s>]+)>|(https?:\/\/[^\s)]+)/ tried at i
RawAt(s, i) ==
  LET ae == IF i <= Len(s) /\ s[i] = "<" THEN SchemeEnd(s, i + 1) ELSE 0
      aue == IF ae = 0 THEN 0 ELSE UrlRunEnd(s, ae + 1, ">")
      be == SchemeEnd(s, i)
      bue == IF be = 0 THEN 0 ELSE UrlRunEnd(s, be + 1, ")")
  IN IF ae # 0 /\ aue > ae /\ aue < Len(s) /\ s[aue + 1] = ">"
     THEN [found |-> TRUE, type |-> "raw", index |-> i, last |-> aue + 1,
           g1 |-> Substr(s, i + 1, aue), g2 |-> <<>>]
     ELSE IF be # 0 /\ bue > be
     THEN [found |-> TRUE, type |-> "raw", index |-> i, last |-> bue,
           g1 |-> <<>>, g2 |-> Substr(s, i, bue)]
     ELSE NoMatch

\* while ((match = markdownLinkRegex.exec(line)) !== null): the matches a
\* global regular expression yields from position i on
RECURSIVE MarkdownMatchesFrom(_, _)
MarkdownMatchesFrom(s, i) ==
  IF i > Len(s) THEN <<>>
  ELSE IF MarkdownAt(s, i).found
       THEN << MarkdownAt(s, i) >> \o MarkdownMatchesFrom(s, MarkdownAt(s, i).last + 1)
       ELSE MarkdownMatchesFrom(s, i + 1)

Overlaps_oneSided(raw, m) == raw.index >= m.index /\ raw.index < m.last + 1

\* the isOverlap test of a raw match against one recorded match
Overlaps(raw, m) ==
  \/ (raw.index >= m.index /\ raw.index < m.last + 1)
  \/ (m.index >= raw.index /\ m.index < raw.last + 1)

IsOverlap_never(raw, matches) == FALSE

IsOverlap(raw, matches) ==
  \E k \in 1..Len(matches) : Overlaps(raw, matches[k])

\* while ((match = rawUrlRegex.exec(line)) !== null): raw matches are
\* pushed onto matches unless they overlap a recorded match
RECURSIVE RawMatchesFrom(_, _, _)
RawMatchesFrom(s, i, matches) ==
  IF i > Len(s) THEN matches
  ELSE IF RawAt(s, i).found
       THEN RawMatchesFrom(s, RawAt(s, i).last + 1,
              IF IsOverlap(RawAt(s, i), matches) THEN matches
              ELSE Append(matches, RawAt(s, i)))
       ELSE RawMatchesFrom(s, i + 1, matches)

\* matches.sort((a, b) => a.index - b.index)
RECURSIVE SortByIndex(_)
SortByIndex(matches) ==
  IF matches = <<>> THEN <<>>
  ELSE LET k == CHOOSE k \in 1..Len(matches) :
                  /\ \A j \in 1..Len(matches) : matches[k].index <= matches[j].index
                  /\ \A j \in 1..(k - 1) : matches[j].index # matches[k].index
       IN << matches[k] >> \o
          SortByIndex(Substr(matches, 1, k - 1) \o Substr(matches, k + 1, Len(matches)))

FindMatches(line) ==
  SortByIndex(RawMatchesFrom(line, 1, MarkdownMatchesFrom(line, 1)))

TextSpan(v) == [kind |-> "text", value |-> v, href |-> <<>>]
LinkSpan(d, h) == [kind |-> "link", value |-> d, href |-> h]
BreakSpan == [kind |-> "br", value |-> <<>>, href |-> <<>>]

\* displayUrl.replace(/\)+$/, '')
RECURSIVE StripClosingParens(_)
StripClosingParens(u) ==
  IF u # <<>> /\ u[Len(u)] = ")" THEN StripClosingParens(Substr(u, 1, Len(u) - 1))
  ELSE u

\* endsWith('.') || endsWith(',') || endsWith(';') -> drop one character
StripOnePunct(u) ==
  IF u # <<>> /\ u[Len(u)] \in {".", ",", ";"} THEN Substr(u, 1, Len(u) - 1)
  ELSE u

\* displayUrl of a match, after the cleanup of raw matches
DisplayUrl(m) ==
  IF m.type = "markdown" THEN m.g2
  ELSE LET u == IF m.g1 # <<>> THEN m.g1 ELSE m.g2 IN
       IF u # <<>> THEN StripOnePunct(StripClosingParens(u)) ELSE u

DisplayText_uncleaned(m) == IF m.g1 # <<>> THEN m.g1 ELSE m.g2

DisplayText(m) == IF m.type = "markdown" THEN m.g1 ELSE DisplayUrl(m)

\* displayUrl.startsWith('http') ? displayUrl : `https://${displayUrl}`
FullLink(u) ==
  IF LiteralAt(u, 1, << "h", "t", "t", "p" >>) THEN u
  ELSE << "h", "t", "t", "p", "s", ":", "/", "/" >> \o u

\* matches.forEach(...): the parts pushed for the matches k.. with the
\* running lastIndex (0-based position of the first unconsumed character)
RECURSIVE PartsFrom(_, _, _, _)
PartsFrom(line, matches, k, lastIndex) ==
  IF k > Len(matches)
  THEN IF lastIndex < Len(line)
       THEN << TextSpan(Substr(line, lastIndex + 1, Len(line))) >> ELSE <<>>
  ELSE LET m == matches[k]
           startIndex == m.index - 1
           endIndex == m.last
       IN (IF startIndex > lastIndex
           THEN << TextSpan(Substr(line, lastIndex + 1, startIndex)) >> ELSE <<>>)
          \o (IF DisplayUrl(m) # <<>>
              THEN << LinkSpan(DisplayText(m), FullLink(DisplayUrl(m))), BreakSpan >>
              ELSE <<>>)
          \o PartsFrom(line, matches, k + 1, endIndex)

formatTextWithLinks(line) == PartsFrom(line, FindMatches(line), 1, 0)

\* ------------------------------------------------------------------------
\* renderMessageText: paragraph groups, line classification, list grouping
\* ------------------------------------------------------------------------
\* bounds of the code point of c
CodePointRange(c) ==
  IF IsLetter(c) THEN << 65, 122 >>
  ELSE IF IsDigit(c) THEN << 48, 57 >>
  ELSE << OtherCodePoint[c], OtherCodePoint[c] >>

\* the character class [*-BULLET] of the source: written between "*" and
\* the bullet, the hyphen denotes the range U+002A..U+2022
InStarToBullet(c) ==
  /\ CodePointRange(c)[1] >= OtherCodePoint["*"]
  /\ CodePointRange(c)[2] <= OtherCodePoint[BULLET]

\* /^[*-BULLET]\s+/.test(trimmedLine)
IsUnorderedListItem(l) ==
  /\ Len(l) >= 2
  /\ InStarToBullet(l[1])
  /\ IsSpace(l[2])

\* /^\d+\.\s+/.test(trimmedLine)
IsOrderedListItem(l) ==
  /\ l # <<>>
  /\ IsDigit(l[1])
  /\ DigitRunEnd(l, 1) + 2 <= Len(l)
  /\ l[DigitRunEnd(l, 1) + 1] = "."
  /\ IsSpace(l[DigitRunEnd(l, 1) + 2])

\* trimmedLine.replace(/^([*-BULLET]|\d+\.)\s*/, ''): the first
\* alternative is tried first
StripItemMarker(l) ==
  LET e == IF l # <<>> /\ InStarToBullet(l[1]) THEN 1
           ELSE IF /\ l # <<>> /\ IsDigit(l[1])
                   /\ DigitRunEnd(l, 1) < Len(l)
                   /\ l[DigitRunEnd(l, 1) + 1] = "."
                THEN DigitRunEnd(l, 1) + 1
           ELSE 0
  IN IF e = 0 THEN l
     ELSE IF e < Len(l) /\ IsSpace(l[e + 1])
          THEN Substr(l, SpaceRunEnd(l, e + 1) + 1, Len(l))
          ELSE Substr(l, e + 1, Len(l))

ParagraphBlock(spans) == [tag |-> "p", spans |-> spans, items |-> <<>>]
ListBlock(t, items) == [tag |-> t, spans |-> <<>>, items |-> items]
BreakBlock == [tag |-> "br", spans |-> <<>>, items |-> <<>>]

\* what lines.forEach has built: listItems, currentList, listType
EmptyWalk == [listItems |-> <<>>, currentList |-> <<>>, listType |-> "null"]

\* one call of the lines.forEach callback
WalkLine(w, line) ==
  LET trimmedLine == Trim(line) IN
  IF IsUnorderedListItem(trimmedLine) \/ IsOrderedListItem(trimmedLine)
  THEN LET newItemType == IF IsOrderedListItem(trimmedLine) THEN "ol" ELSE "ul"
           close == w.currentList # <<>> /\ w.listType # newItemType
           content == Trim(StripItemMarker(trimmedLine))
       IN [listItems |-> IF close
                         THEN Append(w.listItems,
                                ListBlock(IF w.listType = "ol" THEN "ol" ELSE "ul",
                                          w.currentList))
                         ELSE w.listItems,
           currentList |-> Append(IF close THEN <<>> ELSE w.currentList,
                                  formatTextWithLinks(content)),
           listType |-> newItemType]
  ELSE LET close == w.currentList # <<>>
           closed == IF close
                     THEN Append(w.listItems,
                            ListBlock(IF w.listType = "ol" THEN "ol" ELSE "ul",
                                      w.currentList))
                     ELSE w.listItems
       IN [listItems |-> Append(closed,
                           IF trimmedLine # <<>>
                           THEN ParagraphBlock(formatTextWithLinks(trimmedLine))
                           ELSE BreakBlock),
           currentList |-> <<>>,
           listType |-> IF close THEN "null" ELSE w.listType]

RECURSIVE WalkLines(_, _, _)
WalkLines(w, lines, k) ==
  IF k > Len(lines) THEN w ELSE WalkLines(WalkLine(w, lines[k]), lines, k + 1)

RenderParagraph_noFinal(para) == WalkLines(EmptyWalk, SplitLines(para), 1).listItems

\* the callback of paragraphs.map: the children of one <div>
RenderParagraph(para) ==
  LET w == WalkLines(EmptyWalk, SplitLines(para), 1) IN
  IF w.currentList # <<>>
  THEN Append(w.listItems,
         ListBlock(IF w.listType = "ol" THEN "ol" ELSE "ul", w.currentList))
  ELSE w.listItems

\* paragraphs.map((para, idx) => ...)
RenderEach(paras) == [k \in 1..Len(paras) |-> RenderParagraph(paras[k])]

\* index of the last newline of the run of newlines that starts at i
RECURSIVE NewlineRunEnd(_, _)
NewlineRunEnd(s, i) ==
  IF i < Len(s) /\ s[i + 1] = NL THEN NewlineRunEnd(s, i + 1) ELSE i

\* .split(/\n{2,}/)
RECURSIVE SplitParagraphsFrom(_, _, _)
SplitParagraphsFrom(s, start, i) ==
  IF i > Len(s) THEN << Substr(s, start, Len(s)) >>
  ELSE IF s[i] = NL /\ NewlineRunEnd(s, i) > i
       THEN << Substr(s, start, i - 1) >>
              \o SplitParagraphsFrom(s, NewlineRunEnd(s, i) + 1, NewlineRunEnd(s, i) + 1)
       ELSE SplitParagraphsFrom(s, start, i + 1)

\* (text || '').replace(/\r/g, '').split(/\n{2,}/).map(trim).filter(Boolean)
Paragraphs(s) ==
  SelectSeq(TrimEach(SplitParagraphsFrom(StripCR(s), 1, 1)), NonEmpty)

Rendered(divs) == [status |-> "returned", isNull |-> FALSE, divs |-> divs]
RenderedNull == [status |-> "returned", isNull |-> TRUE, divs |-> <<>>]
RenderRaised == [status |-> "raised", isNull |-> FALSE, divs |-> <<>>]

\* renderMessageText without the early return and without
\* .filter(Boolean): every piece of the split is rendered
renderMessageText_unfiltered(text) ==
  IF ~HasReplace(text) THEN RenderRaised
  ELSE Rendered(RenderEach(TrimEach(SplitParagraphsFrom(StripCR(text.chars), 1, 1))))

\* renderMessageText: null for a falsy text, otherwise one <div> per
\* paragraph group
renderMessageText(text) ==
  IF ~Truthy(text) THEN RenderedNull
  ELSE IF ~HasReplace(text) THEN RenderRaised
  ELSE Rendered(RenderEach(Paragraphs(text.chars)))

\* the Document of the design: the blocks of all <div>s in order (null
\* renders nothing)
RECURSIVE Flatten(_)
Flatten(ss) == IF ss = <<>> THEN <<>> ELSE Head(ss) \o Flatten(Tail(ss))

Document(r) == Flatten(r.divs)

\* ------------------------------------------------------------------------
\* The pipeline as a state machine: one reply value is sanitized (and
\* sanitized once more), and the raw text (a user message) or the cleaned
\* text (a bot message) is rendered.
\* ------------------------------------------------------------------------
VARIABLES text, pc, cleaned, recleaned, doc

\* link extraction step by step: the number of lines still to be handed
\* to formatTextWithLinks, the line being extracted, the lastIndex of the
\* two global regular expressions, the matches pushed so far, the position
\* in formatTextWithLinks, and the parts returned by the last call
VARIABLES linesLeft, line, mdLastIndex, rawLastIndex, matches, phase, spanned

\* the chat window: transcript, loading flag, the calls of
\* handleSendMessage, localStorage, the wall clock in hours, whether the
\* component has mounted, and the last call of loadConversationHistory
VARIABLES messages, isLoading, calls, storage, now, mounted, lastLoad

pipelineVars == << text, pc, cleaned, recleaned, doc >>
linkVars == << linesLeft, line, mdLastIndex, rawLastIndex, matches, phase, spanned >>
chatVars == << messages, isLoading, calls, storage, now, mounted, lastLoad >>

vars == << pipelineVars, linkVars, chatVars >>

MaxMarkupLen == 4
MaxInvisibleLen == 4
MaxSpacedTokens == 4
MaxListTokens == 4
MaxLinkTokens == 4

MarkupTokens == { << "a" >>, << "*" >>, << "_" >>, << "+" >>, << "-" >>, << SP >>,
                  << NL >> }
InvisibleTokens == { << "a" >>, << TAB >>, << CR >>, << ZWSP >>, << NL >> }
SpacedTokens == { << "I", SP >>, << "b", NL >>, << "d", "e" >>, << "c" >>, << "1" >> }
ListTokens == { << "-", SP, "f" >>, << "1", ".", SP, "d", "e" >>, << "*", SP, "a" >>,
                << BULLET, SP, "f" >>, << "I", SP, "d", "e" >>, << SP >>, << NL >> }
LinkTokens == { << "[", "a", "]" >>, << "(" >>, << ")" >>, << "." >>, << SP >>,
                << "h", "t", "t", "p", ":", "/", "/", "x" >>,
                << "[", "a", "]", "(", "h", "t", "t", "p", ":", "/", "/", "x", ")" >> }

\* the strings made of at most n tokens of T
StringsOf(T, n) == { Flatten(ts) : ts \in UNION { [1..k -> T] : k \in 0..n } }

StringInputs ==
  StringsOf(MarkupTokens, MaxMarkupLen) \cup StringsOf(InvisibleTokens, MaxInvisibleLen)
    \cup StringsOf(SpacedTokens, MaxSpacedTokens) \cup StringsOf(ListTokens, MaxListTokens)
    \cup StringsOf(LinkTokens, MaxLinkTokens)

NonStringInputs == { JsNull, JsUndefined, JsNumber(0), JsNumber(5), JsObject, JsArray }

Inputs == { Str(s) : s \in StringInputs } \cup NonStringInputs

\* no reply is in the pipeline
PipelineIdle ==
  /\ text = JsNull
  /\ pc = "idle"
  /\ cleaned = [status |-> "none", value |-> <<>>]
  /\ recleaned = [status |-> "none", value |-> <<>>]
  /\ doc = [status |-> "none", isNull |-> FALSE, divs |-> <<>>]

\* formatTextWithLinks has not returned yet
NoParts == [returned |-> FALSE, line |-> <<>>, parts |-> <<>>]

\* no line is being extracted
LinksIdle ==
  /\ linesLeft = 0
  /\ line = <<>>
  /\ mdLastIndex = 0
  /\ rawLastIndex = 0
  /\ matches = <<>>
  /\ phase = "off"
  /\ spanned = NoParts

EmptyStorage == [hasHistory |-> FALSE, history |-> <<>>,
                 hasTimestamp |-> FALSE, timestamp |-> 0]

NoLoad == [called |-> FALSE, before |-> EmptyStorage, at |-> 0,
           result |-> <<>>, after |-> EmptyStorage]

\* no chat window is open
ChatIdle ==
  /\ messages = <<>>
  /\ isLoading = FALSE
  /\ calls = <<>>
  /\ storage = EmptyStorage
  /\ now = 0
  /\ mounted = FALSE
  /\ lastLoad = NoLoad

NotRun == [status |-> "none", value |-> <<>>]
NotRendered == [status |-> "none", isNull |-> FALSE, divs |-> <<>>]

Init ==
  /\ text \in Inputs
  /\ pc = "raw"
  /\ cleaned = NotRun
  /\ recleaned = NotRun
  /\ doc = NotRendered
  /\ LinksIdle
  /\ ChatIdle

\* const botReply = sanitizeReply(rawReply)
Sanitize ==
  /\ pc = "raw"
  /\ cleaned' = sanitizeReply(text)
  /\ pc' = "cleaned"
  /\ UNCHANGED << text, recleaned, doc >>
  /\ UNCHANGED << linkVars, chatVars >>

\* sanitizeReply applied to its own output
SanitizeAgain ==
  /\ pc = "cleaned"
  /\ cleaned.status = "returned"
  /\ recleaned' = sanitizeReply(Str(cleaned.value))
  /\ pc' = "recleaned"
  /\ UNCHANGED << text, cleaned, doc >>
  /\ UNCHANGED << linkVars, chatVars >>

\* renderMessageText(message) for a message shown as it was typed
RenderRaw ==
  /\ pc = "raw"
  /\ doc' = renderMessageText(text)
  /\ pc' = "renderedRaw"
  /\ UNCHANGED << text, cleaned, recleaned >>
  /\ UNCHANGED << linkVars, chatVars >>

\* renderMessageText(message) for a bot message, whose text is the
\* sanitized reply
RenderCleaned ==
  /\ pc = "cleaned"
  /\ cleaned.status = "returned"
  /\ doc' = renderMessageText(Str(cleaned.value))
  /\ pc' = "renderedCleaned"
  /\ UNCHANGED << text, cleaned, recleaned >>
  /\ UNCHANGED << linkVars, chatVars >>

Next == Sanitize \/ SanitizeAgain \/ RenderRaw \/ RenderCleaned

Spec == Init /\ [][Next]_vars

TypeOK ==
  /\ text \in Inputs
  /\ pc \in {"raw", "cleaned", "recleaned", "renderedRaw", "renderedCleaned"}
  /\ cleaned.status \in {"none", "returned", "raised"}
  /\ recleaned.status \in {"none", "returned", "raised"}
  /\ doc.status \in {"none", "returned", "raised"}

\* ------------------------------------------------------------------------
\* Link extraction with the state of the two global regular expressions:
\* one renderMessageText call creates markdownLinkRegex and rawUrlRegex and
\* hands the lines of the message, one after the other, to
\* formatTextWithLinks.
\* ------------------------------------------------------------------------
MaxExecTokens == 2
MaxExecLines == 2

ExecTokens == { << "[", "a", "]", "(", "h", "t", "t", "p", ":", "/", "/", "x", ")" >>,
                << "h", "t", "t", "p", ":", "/", "/", "x" >>, << SP >>, << "." >> }

ExecLines == StringsOf(ExecTokens, MaxExecTokens)

\* markdownLinkRegex.exec(line) with the g flag: the leftmost match that
\* starts at or after lastIndex (0-based), or null
RECURSIVE MarkdownExec(_, _)
MarkdownExec(s, lastIndex) ==
  IF lastIndex >= Len(s) THEN NoMatch
  ELSE IF MarkdownAt(s, lastIndex + 1).found THEN MarkdownAt(s, lastIndex + 1)
  ELSE MarkdownExec(s, lastIndex + 1)

\* rawUrlRegex.exec(line) with the g flag
RECURSIVE RawExec(_, _)
RawExec(s, lastIndex) ==
  IF lastIndex >= Len(s) THEN NoMatch
  ELSE IF RawAt(s, lastIndex + 1).found THEN RawAt(s, lastIndex + 1)
  ELSE RawExec(s, lastIndex + 1)

LastIndexAfter_sticky(m, lastIndex) == IF m.found THEN m.last ELSE lastIndex

\* the lastIndex exec leaves behind: the end of the match, or 0 when the
\* match failed
LastIndexAfter(m, lastIndex) == IF m.found THEN m.last ELSE 0

\* a renderMessageText call: both regular expressions are created, the
\* lines of the message wait for extraction
InitLinks ==
  /\ PipelineIdle
  /\ ChatIdle
  /\ linesLeft = MaxExecLines
  /\ line = <<>>
  /\ mdLastIndex = 0
  /\ rawLastIndex = 0
  /\ matches = <<>>
  /\ phase = "idle"
  /\ spanned = NoParts

\* formatTextWithLinks(line) is entered: parts, lastIndex and matches are
\* fresh, the regular expressions are the shared ones
BeginLine ==
  /\ phase = "idle"
  /\ linesLeft > 0
  /\ \E l \in ExecLines : line' = l
  /\ linesLeft' = linesLeft - 1
  /\ matches' = <<>>
  /\ phase' = "markdown"
  /\ UNCHANGED << mdLastIndex, rawLastIndex, spanned >>
  /\ UNCHANGED << pipelineVars, chatVars >>

\* one evaluation of the condition of the markdown while loop, and its
\* body when the match succeeded
MarkdownStep ==
  /\ phase = "markdown"
  /\ LET m == MarkdownExec(line, mdLastIndex) IN
       /\ mdLastIndex' = LastIndexAfter(m, mdLastIndex)
       /\ matches' = IF m.found THEN Append(matches, m) ELSE matches
       /\ phase' = IF m.found THEN "markdown" ELSE "raw"
  /\ UNCHANGED << linesLeft, line, rawLastIndex, spanned >>
  /\ UNCHANGED << pipelineVars, chatVars >>

\* one evaluation of the condition of the raw-URL while loop, and its body
\* when the match succeeded
RawStep ==
  /\ phase = "raw"
  /\ LET m == RawExec(line, rawLastIndex) IN
       /\ rawLastIndex' = LastIndexAfter(m, rawLastIndex)
       /\ matches' = IF m.found /\ ~IsOverlap(m, matches) THEN Append(matches, m)
                     ELSE matches
       /\ phase' = IF m.found THEN "raw" ELSE "emit"
  /\ UNCHANGED << linesLeft, line, mdLastIndex, spanned >>
  /\ UNCHANGED << pipelineVars, chatVars >>

\* matches.sort, matches.forEach, the remaining text, return parts
EmitParts ==
  /\ phase = "emit"
  /\ spanned' = [returned |-> TRUE, line |-> line,
                 parts |-> PartsFrom(line, SortByIndex(matches), 1, 0)]
  /\ phase' = "idle"
  /\ UNCHANGED << linesLeft, line, mdLastIndex, rawLastIndex, matches >>
  /\ UNCHANGED << pipelineVars, chatVars >>

NextLinks == BeginLine \/ MarkdownStep \/ RawStep \/ EmitParts

SpecLinks == InitLinks /\ [][NextLinks]_vars

\* ------------------------------------------------------------------------
\* The chat window: transcript, requests to the backend and the stored
\* conversation history.
\* ------------------------------------------------------------------------
MaxCalls == 2
MaxHours == 25

\* if (hoursSinceLastSave > 24)
ExpiryHours == 24

\* "Sorry, I'm having trouble connecting right now. Please try again later."
ApologyText ==
  << "S", "o", "r", "r", "y", ",", SP, "I", "'", "m", SP, "h", "a", "v",
     "i", "n", "g", SP, "t", "r", "o", "u", "b", "l", "e", SP, "c", "o",
     "n", "n", "e", "c", "t", "i", "n", "g", SP, "r", "i", "g", "h", "t",
     SP, "n", "o", "w", ".", SP, "P", "l", "e", "a", "s", "e", SP, "t",
     "r", "y", SP, "a", "g", "a", "i", "n", SP, "l", "a", "t", "e", "r",
     "." >>

\* 'Sorry, no reply.'
NoReplyText ==
  << "S", "o", "r", "r", "y", ",", SP, "n", "o", SP, "r", "e", "p", "l",
     "y", "." >>

UserMessage(t) == [sender |-> "user", text |-> t]
BotMessage(t) == [sender |-> "bot", text |-> t]

\* JSON.stringify(messages): the text kept under the history key
JSONstringify(ms) == [json |-> "array", items |-> ms]

\* JSON.parse(history)
JSONparse(j) == j.items

\* localStorage.removeItem for both keys
clearConversationHistory(st) == EmptyStorage

\* localStorage.setItem for both keys, with the time of the call
saveConversationHistory(ms, st, t) ==
  [hasHistory |-> TRUE, history |-> JSONstringify(ms),
   hasTimestamp |-> TRUE, timestamp |-> t]

Expired_inclusive(hoursSinceLastSave) == hoursSinceLastSave >= ExpiryHours

Expired(hoursSinceLastSave) == hoursSinceLastSave > ExpiryHours

\* loadConversationHistory at time t: the list returned and the storage
\* left behind
loadConversationHistory(st, t) ==
  IF ~st.hasHistory \/ ~st.hasTimestamp
  THEN [result |-> <<>>, storage |-> st]
  ELSE IF Expired(t - st.timestamp)
  THEN [result |-> <<>>, storage |-> clearConversationHistory(st)]
  ELSE [result |-> JSONparse(st.history), storage |-> st]

\* the effect on [messages]: the transcript is saved when it is not empty
SaveEffect(ms, st, t) ==
  IF Len(ms) > 0 THEN saveConversationHistory(ms, st, t) ELSE st

\* the texts handed to handleSendMessage
TypedTexts == { << "a" >> }
SuggestionTexts == { << "a" >> }
InitialTexts == { << "a" >>, << SP >> }

\* the bodies response.json() can resolve to: an object with a response
\* field (a reply with emphasis, the empty string, no field, a number) and
\* the value null
DataChoices ==
  { [isObject |-> TRUE, response |-> Str(<< "*", "*", "a", "*", "*" >>)],
    [isObject |-> TRUE, response |-> Str(<<>>)],
    [isObject |-> TRUE, response |-> JsUndefined],
    [isObject |-> TRUE, response |-> JsNumber(5)],
    [isObject |-> FALSE, response |-> JsUndefined] }

NoData == [isObject |-> FALSE, response |-> JsUndefined]

RawReply_nofallback(data) == data.response

\* const rawReply = data.response || 'Sorry, no reply.'
RawReply(data) == IF Truthy(data.response) THEN data.response ELSE Str(NoReplyText)

\* what localStorage can hold when loadConversationHistory is called:
\* nothing, a conversation saved at hour 0, or one of the two keys alone
StoredAtStart ==
  { [hasHistory |-> h, history |-> IF h THEN JSONstringify(<< UserMessage(<< "a" >>) >>)
                                   ELSE <<>>,
     hasTimestamp |-> t, timestamp |-> 0] : h \in BOOLEAN, t \in BOOLEAN }

InitChat ==
  /\ PipelineIdle
  /\ LinksIdle
  /\ messages = <<>>
  /\ isLoading = FALSE
  /\ calls = <<>>
  /\ storage \in { EmptyStorage,
                    saveConversationHistory(<< UserMessage(<< "a" >>) >>, EmptyStorage, 0) }
  /\ now = 0
  /\ mounted = FALSE
  /\ lastLoad = NoLoad

\* the component mounts: the effect that loads the history, then the
\* effect on [messages]
Mount ==
  /\ ~mounted
  /\ LET r == loadConversationHistory(storage, now)
         ms == IF Len(r.result) > 0 THEN r.result ELSE messages
     IN /\ messages' = ms
        /\ storage' = SaveEffect(ms, r.storage, now)
  /\ mounted' = TRUE
  /\ UNCHANGED << isLoading, calls, now, lastLoad >>
  /\ UNCHANGED << pipelineVars, linkVars >>

\* handleSendMessage(messageText) up to its first await
handleSendMessage(t) ==
  /\ Len(calls) < MaxCalls
  /\ IF Trim(t) = <<>>
     THEN /\ calls' = Append(calls, [text |-> t, pc |-> "returned", posts |-> <<>>,
                                     userAppends |-> 0, botAppends |-> 0,
                                     outcome |-> "none", data |-> NoData,
                                     botText |-> <<>>])
          /\ UNCHANGED << messages, isLoading, storage >>
     ELSE /\ messages' = Append(messages, UserMessage(t))
          /\ isLoading' = TRUE
          /\ calls' = Append(calls, [text |-> t, pc |-> "fetching",
                                     posts |-> << [message |-> t] >>,
                                     userAppends |-> 1, botAppends |-> 0,
                                     outcome |-> "none", data |-> NoData,
                                     botText |-> <<>>])
          /\ storage' = SaveEffect(Append(messages, UserMessage(t)), storage, now)
  /\ UNCHANGED << now, mounted, lastLoad >>
  /\ UNCHANGED << pipelineVars, linkVars >>

\* ChatInput handleSubmit: a non-blank text while the input is enabled
SendTyped ==
  /\ mounted
  /\ ~isLoading
  /\ \E t \in TypedTexts : Trim(t) # <<>> /\ handleSendMessage(t)

\* a click on a suggestion of the welcome screen
SendSuggestion ==
  /\ mounted
  /\ Len(messages) = 0 /\ ~isLoading
  /\ \E t \in SuggestionTexts : handleSendMessage(t)

\* the effect on [initialMessage]
SendInitial ==
  /\ mounted
  /\ Len(messages) = 0
  /\ \E t \in InitialTexts : handleSendMessage(t)

\* the catch block followed by the finally block of call k
CatchAndFinally(k) ==
  /\ messages' = Append(messages, BotMessage(ApologyText))
  /\ storage' = SaveEffect(Append(messages, BotMessage(ApologyText)), storage, now)
  /\ isLoading' = FALSE
  /\ calls' = [calls EXCEPT ![k].pc = "settled", ![k].outcome = "failed",
                            ![k].botAppends = @ + 1, ![k].botText = ApologyText]

\* fetch resolves: with an OK status the call goes on to response.json(),
\* otherwise it throws
FetchResolve ==
  /\ \E k \in 1..Len(calls) :
       /\ calls[k].pc = "fetching"
       /\ \E ok \in BOOLEAN :
            IF ok
            THEN /\ calls' = [calls EXCEPT ![k].pc = "parsing"]
                 /\ UNCHANGED << messages, isLoading, storage >>
            ELSE CatchAndFinally(k)
  /\ UNCHANGED << now, mounted, lastLoad >>
  /\ UNCHANGED << pipelineVars, linkVars >>

\* fetch rejects: network error
FetchReject ==
  /\ \E k \in 1..Len(calls) :
       /\ calls[k].pc = "fetching"
       /\ CatchAndFinally(k)
  /\ UNCHANGED << now, mounted, lastLoad >>
  /\ UNCHANGED << pipelineVars, linkVars >>

\* response.json() resolves with data: the reply is sanitized and
\* appended; reading a field of null or sanitizing a value that is not a
\* string throws
JsonResolve ==
  /\ \E k \in 1..Len(calls), data \in DataChoices :
       /\ calls[k].pc = "parsing"
       /\ IF data.isObject /\ sanitizeReply(RawReply(data)).status = "returned"
          THEN LET botReply == sanitizeReply(RawReply(data)).value IN
               /\ messages' = Append(messages, BotMessage(botReply))
               /\ storage' = SaveEffect(Append(messages, BotMessage(botReply)),
                                        storage, now)
               /\ isLoading' = FALSE
               /\ calls' = [calls EXCEPT ![k].pc = "settled", ![k].outcome = "ok",
                                         ![k].data = data,
                                         ![k].botAppends = @ + 1,
                                         ![k].botText = botReply]
          ELSE /\ CatchAndFinally(k)
  /\ UNCHANGED << now, mounted, lastLoad >>
  /\ UNCHANGED << pipelineVars, linkVars >>

\* response.json() rejects: the body is not JSON
JsonReject ==
  /\ \E k \in 1..Len(calls) :
       /\ calls[k].pc = "parsing"
       /\ CatchAndFinally(k)
  /\ UNCHANGED << now, mounted, lastLoad >>
  /\ UNCHANGED << pipelineVars, linkVars >>

\* the clear button, shown while the transcript is not empty
handleClearHistory ==
  /\ mounted
  /\ Len(messages) > 0
  /\ messages' = <<>>
  /\ storage' = clearConversationHistory(storage)
  /\ UNCHANGED << isLoading, calls, now, mounted, lastLoad >>
  /\ UNCHANGED << pipelineVars, linkVars >>

\* time passes: half a day, or a day and an hour
Tick ==
  /\ \E d \in { ExpiryHours \div 2, ExpiryHours + 1 } :
       /\ now + d <= MaxHours
       /\ now' = now + d
  /\ UNCHANGED << messages, isLoading, calls, storage, mounted, lastLoad >>
  /\ UNCHANGED << pipelineVars, linkVars >>

\* the page is closed and opened again: the component state is gone, the
\* pending calls never continue, localStorage stays
Reload ==
  /\ mounted
  /\ messages' = <<>>
  /\ isLoading' = FALSE
  /\ calls' = [k \in 1..Len(calls) |->
                 IF calls[k].pc \in {"fetching", "parsing"}
                 THEN [calls[k] EXCEPT !.pc = "abandoned"] ELSE calls[k]]
  /\ mounted' = FALSE
  /\ UNCHANGED << storage, now, lastLoad >>
  /\ UNCHANGED << pipelineVars, linkVars >>

NextChat ==
  \/ Mount \/ SendTyped \/ SendSuggestion \/ SendInitial
  \/ FetchResolve \/ FetchReject \/ JsonResolve \/ JsonReject
  \/ handleClearHistory \/ Tick \/ Reload

SpecChat == InitChat /\ [][NextChat]_vars

\* ------------------------------------------------------------------------
\* The stored conversation history on its own: the three localStorage
\* helpers applied to every storage content and age.
\* ------------------------------------------------------------------------
MaxStorageHours == 26

\* the transcripts handed to saveConversationHistory
Transcripts ==
  { << UserMessage(<< "a" >>) >>,
    << UserMessage(<< "a" >>), BotMessage(NoReplyText) >> }

InitStorage ==
  /\ PipelineIdle
  /\ LinksIdle
  /\ messages = <<>>
  /\ isLoading = FALSE
  /\ calls = <<>>
  /\ storage \in StoredAtStart
  /\ now = 0
  /\ mounted = FALSE
  /\ lastLoad = NoLoad

\* const history = loadConversationHistory()
LoadHistory ==
  /\ LET r == loadConversationHistory(storage, now) IN
       /\ lastLoad' = [called |-> TRUE, before |-> storage, at |-> now,
                       result |-> r.result, after |-> r.storage]
       /\ storage' = r.storage
  /\ UNCHANGED << messages, isLoading, calls, now, mounted >>
  /\ UNCHANGED << pipelineVars, linkVars >>

\* saveConversationHistory(messages)
SaveHistory ==
  /\ \E ms \in Transcripts : storage' = saveConversationHistory(ms, storage, now)
  /\ lastLoad' = NoLoad
  /\ UNCHANGED << messages, isLoading, calls, now, mounted >>
  /\ UNCHANGED << pipelineVars, linkVars >>

\* clearConversationHistory()
ClearStored ==
  /\ storage' = clearConversationHistory(storage)
  /\ lastLoad' = NoLoad
  /\ UNCHANGED << messages, isLoading, calls, now, mounted >>
  /\ UNCHANGED << pipelineVars, linkVars >>

\* new Date() an hour later
HourPasses ==
  /\ now < MaxStorageHours
  /\ now' = now + 1
  /\ lastLoad' = NoLoad
  /\ UNCHANGED << messages, isLoading, calls, storage, mounted >>
  /\ UNCHANGED << pipelineVars, linkVars >>

NextStorage == LoadHistory \/ SaveHistory \/ ClearStored \/ HourPasses

SpecStorage == InitStorage /\ [][NextStorage]_vars

\* ------------------------------------------------------------------------
\* Properties
\* ------------------------------------------------------------------------
IsString(v) == v.type = "string"

\* s contains the string lit
Contains(s, lit) == \E i \in 1..Len(s) : LiteralAt(s, i, lit)

\* the lines of a cleaned text
OutputLines(r) == IF r.value = <<>> THEN <<>> ELSE SplitLines(r.value)

\* C1: sanitize is idempotent: sanitizeReply applied to its own output
\* returns that output unchanged.
C1_Idempotent ==
  pc = "recleaned" => recleaned = cleaned

\* C2: sanitize never fails: it returns the empty string for the empty
\* string and for every non-string input, and returns a string for every
\* string input.
C2_SanitizeNeverFails ==
  pc = "cleaned" =>
    /\ cleaned.status = "returned"
    /\ (~IsString(text) \/ text.chars = <<>>) => cleaned.value = <<>>

\* r is a run of three or more single letters separated by one blank each
IsSpacedRun(r) ==
  /\ Len(r) >= 2 * MinRunTokens - 1
  /\ Len(r) % 2 = 1
  /\ \A k \in 1..Len(r) : IF k % 2 = 1 THEN IsLetter(r[k]) ELSE IsBlank(r[k])

\* w is a word of two or more letters and digits
IsLongWord(w) ==
  /\ Len(w) >= 2
  /\ \A k \in 1..Len(w) : IsLetter(w[k]) \/ IsDigit(w[k])

\* C3: letter-spacing repair joins a run of three or more spaced single
\* letters into one word and discards only the whitespace inside the run:
\* the blank or newline between the run and the following word is kept.
C3_RepairKeepsSeparator ==
  (pc = "cleaned" /\ IsString(text)) =>
    \A k \in 1..Len(text.chars) :
      ( /\ IsSpacedRun(Substr(text.chars, 1, k))
        /\ k + 1 < Len(text.chars)
        /\ IsBlank(text.chars[k + 1])
        /\ IsLongWord(Substr(text.chars, k + 2, Len(text.chars))) )
      => cleaned.value = StripSpaces(Substr(text.chars, 1, k))
                           \o << text.chars[k + 1] >>
                           \o Substr(text.chars, k + 2, Len(text.chars))

\* C4: an input of exactly two single-letter tokens separated by one space
\* is below the three-token threshold and is returned unchanged.
C4_TwoTokensUnchanged ==
  ( /\ pc = "cleaned" /\ IsString(text) /\ Len(text.chars) = 3
    /\ IsLetter(text.chars[1]) /\ text.chars[2] = SP /\ IsLetter(text.chars[3]) )
  => cleaned = Returned(text.chars)

\* the line starts with one of the markers *, -, +, bullet or N. followed
\* by whitespace
IsMarkerLine(l) ==
  /\ MarkerEnd(l, 1) # 0
  /\ MarkerEnd(l, 1) < Len(l)
  /\ IsSpace(l[MarkerEnd(l, 1) + 1])

\* "bullet, space, remaining trimmed text" for a marker line
CanonicalBullet(l) ==
  << BULLET, SP >> \o Trim(Substr(l, MarkerEnd(l, 1) + 1, Len(l)))

\* w is one plain word: letters and digits only
IsPlainWord(w) ==
  /\ w # <<>>
  /\ \A k \in 1..Len(w) : IsLetter(w[k]) \/ IsDigit(w[k])

\* C5: bullet normalization: when every line of the input (lines separated
\* by single newlines) starts with a list marker followed by whitespace,
\* the output has one line per input line, in order, each the canonical
\* bullet followed by the remaining trimmed text (here: one plain word).
C5_BulletNormalization ==
  ( /\ pc = "cleaned" /\ IsString(text) /\ text.chars # <<>>
    /\ \A k \in 1..Len(SplitLines(text.chars)) :
         /\ IsMarkerLine(SplitLines(text.chars)[k])
         /\ IsPlainWord(Trim(Substr(SplitLines(text.chars)[k],
                                    MarkerEnd(SplitLines(text.chars)[k], 1) + 1,
                                    Len(SplitLines(text.chars)[k])))) )
  => cleaned = Returned(JoinLines([k \in 1..Len(SplitLines(text.chars)) |->
                                   CanonicalBullet(SplitLines(text.chars)[k])]))

\* C6: the output of sanitize holds no control character other than the
\* newline (no carriage return, no tab) and no zero-width or BOM character.
C6_NoControlChars ==
  pc = "cleaned" =>
    \A k \in 1..Len(cleaned.value) :
      cleaned.value[k] \notin {CR, TAB, ZWSP, ZWNJ, ZWJ, BOM}

\* C7: the output of sanitize holds no two consecutive asterisks and no
\* underscore, tilde or backtick.
C7_NoEmphasisMarkers ==
  pc = "cleaned" =>
    /\ ~Contains(cleaned.value, << "*", "*" >>)
    /\ \A k \in 1..Len(cleaned.value) : cleaned.value[k] \notin {"_", "~", BACKTICK}

\* the line begins with *, -, + or digits and a period, followed by
\* whitespace
HasRawMarker(l) ==
  /\ l # <<>>
  /\ l[1] # BULLET
  /\ IsMarkerLine(l)

\* C8: no line of the sanitize output begins with *, -, + or N. followed by
\* whitespace: list lines carry the canonical bullet only.
C8_OnlyCanonicalBullets ==
  pc = "cleaned" =>
    \A k \in 1..Len(OutputLines(cleaned)) : ~HasRawMarker(OutputLines(cleaned)[k])

\* C9: parse never fails: renderMessageText raises for no string input and
\* yields the empty Document for the empty string.
C9_ParseNeverFails ==
  (pc \in {"renderedRaw", "renderedCleaned"} /\ IsString(text)) =>
    /\ doc.status = "returned"
    /\ (pc = "renderedRaw" /\ text.chars = <<>>) => Document(doc) = <<>>

C9_Witness ==
  /\ pc = "renderedRaw"
  /\ IsString(text)
  /\ text.chars = <<>>
  /\ doc.status = "returned"
  /\ Document(doc) = <<>>

\* no line of s starts with a list marker (*, -, bullet or N.) followed by
\* whitespace
NoListMarker(s) ==
  \A k \in 1..Len(SplitLines(s)) :
    LET l == Trim(SplitLines(s)[k]) IN
    ~(IsMarkerLine(l) /\ l[1] # "+")

\* C10: round trip on plain text: a non-empty text without list marker and
\* without URL parses to exactly one Paragraph block holding exactly one
\* Text span equal to the input.
C10_PlainTextRoundTrip ==
  ( /\ pc = "renderedRaw" /\ IsString(text) /\ text.chars # <<>>
    /\ Trim(text.chars) = text.chars
    /\ NoListMarker(text.chars)
    /\ ~Contains(text.chars, << "h", "t", "t", "p" >>) )
  => /\ doc.status = "returned"
     /\ Document(doc) = << ParagraphBlock(<< TextSpan(text.chars) >>) >>

\* the text is rendered as typed and makes one paragraph of one line: the
\* line handed to formatTextWithLinks is the trimmed text
IsSingleParagraph ==
  /\ pc = "renderedRaw"
  /\ IsString(text)
  /\ \A k \in 1..Len(text.chars) : text.chars[k] \notin {NL, CR}
  /\ doc.status = "returned"
  /\ Len(Document(doc)) = 1
  /\ Document(doc)[1].tag = "p"

\* the spans of that paragraph
ParagraphSpans == Document(doc)[1].spans

LinksOf(spans) == SelectSeq(spans, LAMBDA sp : sp.kind = "link")

\* every match of the raw-URL expression in the line, left to right
AllRawMatches(l) == RawMatchesFrom(l, 1, <<>>)

\* the character spans of two matches have no position in common
DisjointSpans(a, b) == a.last < b.index \/ b.last < a.index

\* the matches the design keeps: every markdown link, and every raw match
\* that shares no character with a markdown link, by start offset
PriorityMatches(l) ==
  LET md == MarkdownMatchesFrom(l, 1) IN
  SortByIndex(md \o SelectSeq(AllRawMatches(l),
                              LAMBDA r : \A k \in 1..Len(md) : DisjointSpans(r, md[k])))

LinkOfMatch(m) == LinkSpan(DisplayText(m), FullLink(DisplayUrl(m)))

\* C11: markdown links take priority: the Link spans of a line are the
\* markdown links plus the raw matches that overlap no markdown link; a raw
\* match overlapping a markdown link yields no Link.
C11_MarkdownPriority ==
  IsSingleParagraph =>
    LinksOf(ParagraphSpans) =
      [k \in 1..Len(PriorityMatches(Trim(text.chars))) |->
         LinkOfMatch(PriorityMatches(Trim(text.chars))[k])]

\* "[a](http://x) http://x": the URL inside the markdown link is dropped,
\* the bare URL after it is a Link of its own
C11_Witness ==
  /\ IsSingleParagraph
  /\ Len(MarkdownMatchesFrom(Trim(text.chars), 1)) = 1
  /\ Len(AllRawMatches(Trim(text.chars))) = 2
  /\ Len(LinksOf(ParagraphSpans)) = 2
  /\ LinksOf(ParagraphSpans)[1].value = << "a" >>
  /\ LinksOf(ParagraphSpans)[2].value = LinksOf(ParagraphSpans)[2].href

\* a Link span that shows its own URL: the Link of a raw match
IsRawLink(sp) == sp.kind = "link" /\ sp.value = sp.href

\* C12: punctuation stripping: no raw-URL Link has a display text or href
\* that ends in ')', '.', ',' or ';'.
C12_PunctuationStripped ==
  IsSingleParagraph =>
    \A k \in 1..Len(ParagraphSpans) :
      IsRawLink(ParagraphSpans[k]) =>
        /\ ParagraphSpans[k].value[Len(ParagraphSpans[k].value)] \notin {")", ".", ",", ";"}
        /\ ParagraphSpans[k].href[Len(ParagraphSpans[k].href)] \notin {")", ".", ",", ";"}

\* the source characters a span stands for: the text, the URL shown by a
\* raw Link, or label and URL of a markdown link with its separators
SourceOfSpan(sp) ==
  IF sp.kind = "text" THEN sp.value
  ELSE IF sp.kind = "br" THEN <<>>
  ELSE IF IsRawLink(sp) THEN sp.value
  ELSE << "[" >> \o sp.value \o << "]", "(" >> \o sp.href \o << ")" >>

\* C13: no character is silently dropped by link extraction: the spans of
\* a line, with the separators consumed by matching, reproduce the line.
C13_NothingDropped ==
  IsSingleParagraph =>
    Flatten([k \in 1..Len(ParagraphSpans) |-> SourceOfSpan(ParagraphSpans[k])])
      = Trim(text.chars)

\* the line is an unordered list item of the design: *, - or the bullet,
\* followed by whitespace
IsDesignUnordered(l) ==
  Len(l) >= 2 /\ l[1] \in {"*", "-", BULLET} /\ IsSpace(l[2])

\* the line is an ordered list item of the design: digits, a period,
\* whitespace
IsDesignOrdered(l) ==
  /\ l # <<>> /\ IsDigit(l[1])
  /\ DigitRunEnd(l, 1) + 2 <= Len(l)
  /\ l[DigitRunEnd(l, 1) + 1] = "."
  /\ IsSpace(l[DigitRunEnd(l, 1) + 2])

IsDesignPlain(l) == l # <<>> /\ ~IsDesignUnordered(l) /\ ~IsDesignOrdered(l)

\* C14: document order matches source order: k >= 1 unordered list lines
\* followed by a plain line give exactly two sibling blocks, an unordered
\* List of k items and then a Paragraph holding the plain line.
C14_ListThenParagraph ==
  ( /\ pc = "renderedRaw" /\ IsString(text) /\ text.chars # <<>>
    /\ Len(SplitLines(text.chars)) >= 2
    /\ \A k \in 1..Len(SplitLines(text.chars)) :
         /\ SplitLines(text.chars)[k] = Trim(SplitLines(text.chars)[k])
         /\ IF k < Len(SplitLines(text.chars))
            THEN IsDesignUnordered(SplitLines(text.chars)[k])
            ELSE IsDesignPlain(SplitLines(text.chars)[k]) )
  => /\ Len(Document(doc)) = 2
     /\ Document(doc)[1].tag = "ul"
     /\ Len(Document(doc)[1].items) = Len(SplitLines(text.chars)) - 1
     /\ Document(doc)[2].tag = "p"

\* s is two words of letters separated by one blank line
IsTwoParagraphs(s) ==
  \E i \in 2..(Len(s) - 2) :
    /\ s[i] = NL /\ s[i + 1] = NL
    /\ \A k \in 1..Len(s) : k \notin {i, i + 1} => IsLetter(s[k])

\* C18: whitespace collapsing keeps intentional newlines: two paragraphs
\* separated by a blank line in the raw reply are still two paragraph
\* groups when the cleaned text is parsed.
C18_ParagraphsKept ==
  (pc = "renderedCleaned" /\ IsString(text) /\ IsTwoParagraphs(text.chars))
    => (doc.status = "returned" /\ Len(doc.divs) = 2)

\* C19: the lines of a cleaned text are non-empty, carry no leading or
\* trailing whitespace and are not separator lines of two or more dashes
\* or asterisks; the cleaned text neither starts nor ends with a newline.
\* (The empty cleaned text has no line.)
C19_CleanLines ==
  (pc = "cleaned" /\ IsString(text)) =>
    /\ cleaned.status = "returned"
    /\ \A k \in 1..Len(OutputLines(cleaned)) :
         /\ OutputLines(cleaned)[k] # <<>>
         /\ \E j \in 1..Len(OutputLines(cleaned)[k]) : ~IsSpace(OutputLines(cleaned)[k][j])
         /\ OutputLines(cleaned)[k] = Trim(OutputLines(cleaned)[k])
         /\ ~( /\ Len(OutputLines(cleaned)[k]) >= 2
               /\ \A j \in 1..Len(OutputLines(cleaned)[k]) :
                    OutputLines(cleaned)[k][j] \in {"-", "*"} )
    /\ cleaned.value # <<>> =>
         (cleaned.value[1] # NL /\ cleaned.value[Len(cleaned.value)] # NL)

\* a raw reply of a line of text and a separator line: the separator is
\* dropped and the line of text is kept
C19_Witness ==
  /\ pc = "cleaned" /\ IsString(text)
  /\ SplitLines(text.chars) = << << "a" >>, << "-", "-" >> >>
  /\ cleaned = Returned(<< "a" >>)

\* C20: line classification: a trimmed line is an unordered list item
\* exactly when it begins with *, - or the bullet followed by whitespace,
\* an ordered list item exactly when it begins with digits, a period and
\* whitespace, and plain otherwise.
C20_LineClassification ==
  (IsString(text) /\ pc = "renderedRaw" /\ doc.status = "returned"
     /\ (\A k \in 1..Len(text.chars) : text.chars[k] \notin {NL, CR})
     /\ Trim(text.chars) # <<>>)
  => /\ Len(Document(doc)) = 1
     /\ Document(doc)[1].tag =
          IF IsDesignUnordered(Trim(text.chars)) THEN "ul"
          ELSE IF IsDesignOrdered(Trim(text.chars)) THEN "ol"
          ELSE "p"

\* C15: link extraction is stateless: both global regular expressions are
\* at lastIndex 0 whenever the extraction of a line begins, and the parts
\* returned for a line are those of that line alone, whatever lines were
\* extracted before it.
C15_Stateless ==
  /\ phase = "idle" => (mdLastIndex = 0 /\ rawLastIndex = 0)
  /\ spanned.returned => spanned.parts = formatTextWithLinks(spanned.line)

\* a line with a markdown link and a raw URL has been extracted, both
\* expressions have matched and failed once, and another line is waiting
C15_Witness ==
  /\ phase = "idle"
  /\ linesLeft > 0
  /\ spanned.returned
  /\ Len(LinksOf(spanned.parts)) = 2
  /\ Len(MarkdownMatchesFrom(spanned.line, 1)) = 1
  /\ mdLastIndex = 0 /\ rawLastIndex = 0

\* the appends and requests a call of handleSendMessage has made so far:
\* none for a blank text; for any other text one user message and one
\* POST carrying the text, and one bot message once the call has settled
CallCounts(c) ==
  IF Trim(c.text) = <<>>
  THEN c.pc = "returned" /\ c.posts = <<>> /\ c.userAppends = 0 /\ c.botAppends = 0
  ELSE /\ c.posts = << [message |-> c.text] >>
       /\ c.userAppends = 1
       /\ c.botAppends = IF c.pc = "settled" THEN 1 ELSE 0

\* call k settles in this step
Settles(k) == calls[k].pc \in {"fetching", "parsing"} /\ calls'[k].pc = "settled"

\* a call of handleSendMessage is made in this step
Called == Len(calls') = Len(calls) + 1

\* the step of a call up to its first await: a blank text changes nothing,
\* any other text is appended as the user message at the end
CallStep ==
  Called =>
    IF Trim(calls'[Len(calls')].text) = <<>>
    THEN UNCHANGED << messages, isLoading, storage >>
    ELSE messages' = Append(messages, UserMessage(calls'[Len(calls')].text))

\* the text of the bot message as stated: the sanitized response on
\* success, the apology otherwise
StatedBotText(c) ==
  IF c.outcome = "ok" THEN sanitizeReply(c.data.response).value ELSE ApologyText

\* the text of the bot message: on success the sanitized response when
\* the response field is a non-empty string and the sanitized fallback
\* text when it is missing or empty, the apology otherwise
FallbackBotText(c) ==
  IF c.outcome = "ok"
  THEN IF Truthy(c.data.response) THEN sanitizeReply(c.data.response).value
       ELSE sanitizeReply(Str(NoReplyText)).value
  ELSE ApologyText

\* C16: every call of handleSendMessage with a non-blank message appends
\* the user message and issues exactly one POST carrying it; when the
\* request settles exactly one bot message is appended at the end of the
\* transcript (the sanitized response on success, the apology text on a
\* non-OK status, a network error or a processing error) and isLoading
\* becomes false; a blank message appends nothing and issues no request.
C16_SendAndSettle ==
  /\ [](\A k \in 1..Len(calls) :
          /\ CallCounts(calls[k])
          /\ calls[k].pc = "settled" => calls[k].botText = StatedBotText(calls[k]))
  /\ [][CallStep]_vars
  /\ [][\A k \in 1..Len(calls) :
          Settles(k) => /\ messages' = Append(messages, BotMessage(StatedBotText(calls'[k])))
                        /\ ~isLoading']_vars

\* C16 with the fallback: as C16_SendAndSettle, where the bot message of a
\* successful request whose body has no response field, or an empty one,
\* is the sanitized fallback text 'Sorry, no reply.'.
C16_SendAndSettleFallback ==
  /\ [](\A k \in 1..Len(calls) :
          /\ CallCounts(calls[k])
          /\ calls[k].pc = "settled" => calls[k].botText = FallbackBotText(calls[k]))
  /\ [][CallStep]_vars
  /\ [][\A k \in 1..Len(calls) :
          Settles(k) => /\ messages' = Append(messages, BotMessage(FallbackBotText(calls'[k])))
                        /\ ~isLoading']_vars

\* a request came back with a body that has no usable response field: the
\* fallback text is the last message of the transcript and loading is over
C16_Witness ==
  /\ ~isLoading
  /\ Len(messages) = 2
  /\ messages[2] = BotMessage(NoReplyText)
  /\ \E k \in 1..Len(calls) :
       /\ calls[k].pc = "settled" /\ calls[k].outcome = "ok"
       /\ ~Truthy(calls[k].data.response)
       /\ calls[k].posts = << [message |-> << "a" >>] >>

\* C17: stored history expires 24 hours after the stored timestamp:
\* loadConversationHistory returns the stored records when both keys exist
\* and the timestamp is at most 24 hours old, an empty list when a key is
\* missing, and when the timestamp is more than 24 hours old an empty list
\* with both keys removed.
C17_Expiry ==
  lastLoad.called =>
    IF ~lastLoad.before.hasHistory \/ ~lastLoad.before.hasTimestamp
    THEN lastLoad.result = <<>>
    ELSE IF lastLoad.at - lastLoad.before.timestamp <= 24
    THEN lastLoad.result = JSONparse(lastLoad.before.history)
    ELSE /\ lastLoad.result = <<>>
         /\ ~lastLoad.after.hasHistory /\ ~lastLoad.after.hasTimestamp
         /\ storage = lastLoad.after

\* a history saved 25 hours ago has just been loaded: nothing is returned
\* and both keys are gone
C17_Witness ==
  /\ lastLoad.called
  /\ lastLoad.before.hasHistory /\ lastLoad.before.hasTimestamp
  /\ lastLoad.at - lastLoad.before.timestamp = 25
  /\ lastLoad.result = <<>>
  /\ storage = EmptyStorage

\* the class of a line of a paragraph group in the design: an ordered or
\* unordered list item, a plain line, or a blank line
DesignClass(l) ==
  IF IsDesignOrdered(Trim(l)) THEN "ol"
  ELSE IF IsDesignUnordered(Trim(l)) THEN "ul"
  ELSE IF Trim(l) = <<>> THEN "blank"
  ELSE "p"

\* the classes of the lines of paragraph group k of the text
GroupClasses(k) ==
  [i \in 1..Len(SplitLines(Paragraphs(text.chars)[k])) |->
     DesignClass(SplitLines(Paragraphs(text.chars)[k])[i])]

\* the number of maximal runs of class t in the sequence cs
CountRuns(cs, t) ==
  Cardinality({ i \in 1..Len(cs) : cs[i] = t /\ (i = 1 \/ cs[i - 1] # t) })

\* the number of list items held by the blocks of tag t
RECURSIVE SumItems(_, _)
SumItems(blocks, t) ==
  IF blocks = <<>> THEN 0
  ELSE (IF Head(blocks).tag = t THEN Len(Head(blocks).items) ELSE 0)
         + SumItems(Tail(blocks), t)

\* the text has been rendered as typed, into one <div> per paragraph group
IsRenderedText ==
  /\ pc = "renderedRaw"
  /\ IsString(text)
  /\ doc.status = "returned"
  /\ ~doc.isNull

\* C21: list grouping: within a paragraph group every List block is
\* non-empty, two adjacent List blocks differ in type, the items of the
\* List blocks of a type are the list lines of that type, and there is one
\* List block per maximal run of consecutive list lines of one type.
C21_ListGrouping ==
  IsRenderedText =>
    \A k \in 1..Len(doc.divs) :
      /\ \A i \in 1..Len(doc.divs[k]) :
           doc.divs[k][i].tag \in {"ul", "ol"} => Len(doc.divs[k][i].items) >= 1
      /\ \A i \in 1..(Len(doc.divs[k]) - 1) :
           (doc.divs[k][i].tag \in {"ul", "ol"} /\ doc.divs[k][i + 1].tag \in {"ul", "ol"})
             => doc.divs[k][i].tag # doc.divs[k][i + 1].tag
      /\ \A t \in {"ul", "ol"} :
           /\ SumItems(doc.divs[k], t)
                = Cardinality({ i \in 1..Len(GroupClasses(k)) : GroupClasses(k)[i] = t })
           /\ Cardinality({ i \in 1..Len(doc.divs[k]) : doc.divs[k][i].tag = t })
                = CountRuns(GroupClasses(k), t)

\* a word of letters
IsLetterWord(w) == w # <<>> /\ \A k \in 1..Len(w) : IsLetter(w[k])

\* C22: consecutive plain lines of a paragraph group are accumulated into
\* one Paragraph block: a group of n >= 2 plain lines (here: one word per
\* line) yields one Paragraph block, not n.
C22_PlainLinesAccumulate ==
  ( /\ IsRenderedText
    /\ Len(SplitLines(text.chars)) >= 2
    /\ \A k \in 1..Len(SplitLines(text.chars)) : IsLetterWord(SplitLines(text.chars)[k]) )
  => /\ Len(Document(doc)) = 1
     /\ Document(doc)[1].tag = "p"

\* the content of a list-item line in the design: the line without its
\* whole marker (*, -, the bullet, or digits and a period) and without the
\* whitespace after it
DesignContent(l) ==
  IF IsDesignOrdered(l)
  THEN Substr(l, SpaceRunEnd(l, DigitRunEnd(l, 1) + 2) + 1, Len(l))
  ELSE Substr(l, SpaceRunEnd(l, 2) + 1, Len(l))

\* C23: marker stripping: the text of a list item handed to link
\* extraction is the line without its whole marker and the whitespace
\* after it; for "N. text" it is "text", for the bullet and "text" it is
\* "text".
C23_MarkerStripped ==
  ( /\ IsRenderedText
    /\ \A k \in 1..Len(text.chars) : text.chars[k] \notin {NL, CR}
    /\ IsDesignOrdered(Trim(text.chars)) \/ IsDesignUnordered(Trim(text.chars)) )
  => /\ Len(Document(doc)) = 1
     /\ Document(doc)[1].tag \in {"ul", "ol"}
     /\ Document(doc)[1].items
          = << formatTextWithLinks(Trim(DesignContent(Trim(text.chars)))) >>

\* the characters of l that lie in no extent of the matches ms
TextOutside(l, ms) ==
  SelectSeq([i \in 1..Len(l) |-> [pos |-> i, char |-> l[i]]],
            LAMBDA c : \A k \in 1..Len(ms) : c.pos < ms[k].index \/ c.pos > ms[k].last)

\* the characters of the Text spans, in order
TextOfSpans(spans) ==
  Flatten([k \in 1..Len(spans) |->
             IF spans[k].kind = "text" THEN spans[k].value ELSE <<>>])

\* every match either expression finds in l
FoundMatches(l) == MarkdownMatchesFrom(l, 1) \o AllRawMatches(l)

\* m is one of the matches ms
IsAmong(m, ms) == \E k \in 1..Len(ms) : ms[k] = m

\* C24: the matches retained for a line are pairwise non-overlapping and
\* in strictly ascending start offset; each yields exactly one Link span,
\* in that order, standing for its full extent; a match that is found and
\* not retained yields no Link, and the characters outside the retained
\* extents are literal text.
C24_MatchesWhole ==
  IsSingleParagraph =>
    /\ \A i \in 1..Len(FindMatches(Trim(text.chars))) :
         \A j \in (i + 1)..Len(FindMatches(Trim(text.chars))) :
           /\ DisjointSpans(FindMatches(Trim(text.chars))[i], FindMatches(Trim(text.chars))[j])
           /\ FindMatches(Trim(text.chars))[i].index < FindMatches(Trim(text.chars))[j].index
    /\ \A k \in 1..Len(FindMatches(Trim(text.chars))) :
         IsAmong(FindMatches(Trim(text.chars))[k], FoundMatches(Trim(text.chars)))
    /\ Len(LinksOf(ParagraphSpans)) = Len(FindMatches(Trim(text.chars)))
    /\ TextOfSpans(ParagraphSpans)
         = [i \in 1..Len(TextOutside(Trim(text.chars), FindMatches(Trim(text.chars)))) |->
              TextOutside(Trim(text.chars), FindMatches(Trim(text.chars)))[i].char]

\* "http://x [a](http://x)": the raw URL in front is kept, the one inside
\* the markdown link is dropped, and the Links come in source order
C24_Witness ==
  /\ IsSingleParagraph
  /\ Len(FoundMatches(Trim(text.chars))) = 3
  /\ Len(LinksOf(ParagraphSpans)) = 2
  /\ IsRawLink(LinksOf(ParagraphSpans)[1])
  /\ LinksOf(ParagraphSpans)[2].value = << "a" >>
  /\ TextOfSpans(ParagraphSpans) = << SP >>

\* the URL a raw match has matched: the text between the angle brackets,
\* or the whole match
MatchedUrl(l, m) ==
  IF l[m.index] = "<" THEN Substr(l, m.index + 1, m.last - 1)
  ELSE Substr(l, m.index, m.last)

\* u is v followed by closing parentheses, periods, commas or semicolons
IsCleanedFrom(v, u) ==
  /\ Len(v) <= Len(u)
  /\ Substr(u, 1, Len(v)) = v
  /\ \A k \in (Len(v) + 1)..Len(u) : u[k] \in {")", ".", ",", ";"}

\* C25: link contents: a markdown link shows the bracketed text and points
\* to the URL in the parentheses, unchanged; a raw match shows and points
\* to the same cleaned URL; every href begins with http:// or https://.
C25_LinkContents ==
  IsSingleParagraph =>
    /\ Len(LinksOf(ParagraphSpans)) = Len(FindMatches(Trim(text.chars)))
    /\ \A k \in 1..Len(LinksOf(ParagraphSpans)) :
         LET m == FindMatches(Trim(text.chars))[k]
             a == LinksOf(ParagraphSpans)[k]
             close == LabelRunEnd(Trim(text.chars), m.index + 1) + 1
         IN /\ SchemeEnd(a.href, 1) # 0
            /\ IF m.type = "markdown"
               THEN /\ a.value = Substr(Trim(text.chars), m.index + 1, close - 1)
                    /\ a.href = Substr(Trim(text.chars), close + 2, m.last - 1)
               ELSE /\ a.value = a.href
                    /\ IsCleanedFrom(a.value, MatchedUrl(Trim(text.chars), m))

\* "[a](http://x) http://x.": a markdown link and a raw URL that lost its
\* period
C25_Witness ==
  /\ IsSingleParagraph
  /\ Len(LinksOf(ParagraphSpans)) = 2
  /\ LinksOf(ParagraphSpans)[1]
       = LinkSpan(<< "a" >>, << "h", "t", "t", "p", ":", "/", "/", "x" >>)
  /\ IsRawLink(LinksOf(ParagraphSpans)[2])
  /\ Trim(text.chars)[Len(Trim(text.chars))] = "."

\* l is an unterminated markdown link and nothing else: a bracket that is
\* never closed, or a label and a URL whose parenthesis is never closed
IsUnterminatedMarkdown(l) ==
  /\ Len(l) >= 2
  /\ l[1] = "["
  /\ \A k \in 1..Len(l) : ~IsSpace(l[k]) /\ l[k] # ")" /\ (k > 1 => l[k] # "[")
  /\ \/ \A k \in 1..Len(l) : l[k] # "]"
     \/ /\ LabelRunEnd(l, 2) >= 2
        /\ LiteralAt(l, LabelRunEnd(l, 2) + 1, << "]", "(" >>)
        /\ SchemeEnd(l, LabelRunEnd(l, 2) + 3) # 0

\* C26: partial markdown is a no-match: a line whose only link syntax is
\* an unterminated markdown link produces no Link span; its characters
\* are left as literal text.
C26_PartialMarkdown ==
  ( /\ IsRenderedText
    /\ \A k \in 1..Len(text.chars) : text.chars[k] \notin {NL, CR}
    /\ IsUnterminatedMarkdown(Trim(text.chars)) )
  => Document(doc) = << ParagraphBlock(<< TextSpan(Trim(text.chars)) >>) >>

\* the number of lines of the text that are not blank
NonBlankLines(s) ==
  Cardinality({ i \in 1..Len(SplitLines(StripCR(s))) :
                  Trim(SplitLines(StripCR(s))[i]) # <<>> })

\* C27: line accounting: every non-blank line contributes exactly one
\* element to the Document, a list item or a paragraph: the number of list
\* items plus the number of paragraphs is the number of non-blank lines.
C27_LineAccounting ==
  IsRenderedText =>
    SumItems(Document(doc), "ul") + SumItems(Document(doc), "ol")
      + Cardinality({ i \in 1..Len(Document(doc)) : Document(doc)[i].tag = "p" })
    = NonBlankLines(text.chars)

\* three lines gave two paragraphs and a list
C27_Witness ==
  /\ IsRenderedText
  /\ NonBlankLines(text.chars) = 3
  /\ Cardinality({ i \in 1..Len(Document(doc)) : Document(doc)[i].tag = "p" }) = 2
  /\ SumItems(Document(doc), "ul") + SumItems(Document(doc), "ol") = 1

\* call k has issued its request and has not settled
Outstanding(k) == calls[k].pc \in {"fetching", "parsing"}

\* C28: at most one chat request is outstanding at any time, and isLoading
\* is true in every state in which a request is outstanding.
C28_OneRequest ==
  /\ Cardinality({ k \in 1..Len(calls) : Outstanding(k) }) <= 1
  /\ (\E k \in 1..Len(calls) : Outstanding(k)) => isLoading

\* the number of messages of sender who among the first i of the
\* transcript
CountSender(who, i) == Cardinality({ j \in 1..i : messages[j].sender = who })

\* C29: clearing history is final for earlier traffic: an empty transcript
\* with both storage keys absent stays so until handleSendMessage is
\* called again, and every bot message of the transcript is preceded by
\* the user message that caused it.
C29_ClearIsFinal ==
  /\ [](\A i \in 1..Len(messages) :
          messages[i].sender = "bot" => CountSender("bot", i) <= CountSender("user", i))
  /\ [][(messages = <<>> /\ storage = EmptyStorage /\ ~Called)
          => (messages' = <<>> /\ storage' = EmptyStorage)]_vars

\* the timestamp key is written with a new value in this step
TimestampRewritten ==
  /\ storage'.hasTimestamp
  /\ ~storage.hasTimestamp \/ storage'.timestamp # storage.timestamp

\* C30: restoring history does not extend its lifetime: the stored
\* timestamp is rewritten only in a step that appends a message to the
\* transcript (a call of handleSendMessage or the settling of a request),
\* never by mounting and loading the stored history.
C30_RestoreKeepsTimestamp ==
  [][TimestampRewritten => (Called \/ \E k \in 1..Len(calls) : Settles(k))]_vars

====
